---- MODULE Spec2Model ----
(***************************************************************************)
(* A model of nbai's cache-aware summarization orchestrator                *)
(* (scripts/article_processor.py) and of its benchmark driver              *)
(* (scripts/llmbench.py).                                                  *)
(*                                                                         *)
(* Texts are sequences of tokens.  A token stands for the characters it    *)
(* spells: "think" is the five letters in any case (every pattern of       *)
(* clean_text is case-insensitive), "x" is any character no pattern        *)
(* mentions.  Time is counted in hours.                                    *)
(***************************************************************************)
EXTENDS Integers, Sequences, FiniteSets, TLC

(***************************************************************************)
(* Bounds of the model                                                     *)
(***************************************************************************)
\* the clock stops advancing here (hours)
MaxTime == 24
\* the driver's runs per (url, model) pair (-r) are at most this
MaxRuns == 2
\* the driver's sweeps have at most this many runs in all ...
MaxTests == 4
\* ... and at most this many when each run is a whole orchestrator run
MaxSweepTests == 2
\* the texts given to clean_text alone are made of at most this many pieces
MaxPieces == 4

(***************************************************************************)
(* Program constants                                                       *)
(***************************************************************************)
\* check_repeated_content: cache_age_hours < 24
RepeatWindowHours == 24
\* fetch_article_content: cache_age_hours < 24
CacheFreshHours == 24
\* main: summary_length default
DefaultSummaryLength == 257
\* main: ollama_model default
DefaultModel == "qwen3:1.7b"
\* main: allow_repeated default
DefaultAllowRepeated == "no"
\* the value of the 5th argument that check_repeated_content tests for
REPEATED == "REPEATED"

(***************************************************************************)
(* Input domains                                                           *)
(***************************************************************************)
Hosts == {"", "host:11434"}
Urls == {"u1", "u2"}
ModelNames == {"m1", "qwen3:1.7b"}
SummaryLengths == {2, 257}
AllowFlags == {"no", "REPEATED"}

Blank == {" ", "\t"}
Whitespace == Blank \cup {"\n"}

\* the fixed fallback marker "[Error: No summary generated]"
FallbackMarker == <<"[Error", ": No summary generated]">>

\* response texts of the generation request
Responses ==
  { <<>>,
    <<" ">>,
    <<"x">>,
    <<"x", " ", "x", " ", "x">>,
    <<"<", "think", ">", "x", "<", "/", "think", ">">>,
    <<"<", "think", ">", "x", "<", "/", "think", ">", "\n", " ", "x", " ">>,
    <<"[Error", "x">> }

\* texts the extractor returns for a fetched page: as it was when the cache
\* entries of the initial state were written, and as it is after a change
OldPage == <<" ", "x">>
PageTexts == { OldPage, <<"x", " ", "\n", "x">> }
\* the clock advances in steps of (hours)
TickHours == {12}

(***************************************************************************)
(* Text helpers                                                            *)
(***************************************************************************)
CharLen(tok) ==
  CASE tok = "think" -> 5
    [] tok = "ing" -> 3
    [] tok = "done" -> 4
    [] tok = "[Error" -> 6
    [] tok = ": No summary generated]" -> 23
    [] tok = "REPEATED" -> 8
    [] OTHER -> 1

RECURSIVE TextLen(_)
\* len(text), in characters
TextLen(s) == IF s = <<>> THEN 0 ELSE CharLen(Head(s)) + TextLen(Tail(s))

RECURSIVE SkipOver(_, _, _)
\* the first position >= i of s whose token is not in class (Len(s)+1 if none)
SkipOver(s, i, class) ==
  IF i > Len(s) \/ s[i] \notin class THEN i ELSE SkipOver(s, i + 1, class)

\* str.strip(): leading and trailing whitespace removed
RECURSIVE LStrip(_, _)
LStrip(s, class) ==
  IF s # <<>> /\ Head(s) \in class THEN LStrip(Tail(s), class) ELSE s

RECURSIVE RStrip(_, _)
RStrip(s, class) ==
  IF s # <<>> /\ s[Len(s)] \in class
    THEN RStrip(SubSeq(s, 1, Len(s) - 1), class)
    ELSE s

Strip(s) == RStrip(LStrip(s, Whitespace), Whitespace)

RECURSIVE CollapseWs(_)
\* re.sub(r'\s+', ' ', text)
CollapseWs(s) ==
  IF s = <<>> THEN <<>>
  ELSE IF Head(s) \in Whitespace
    THEN <<" ">> \o CollapseWs(LStrip(s, Whitespace))
    ELSE <<Head(s)>> \o CollapseWs(Tail(s))

\* the end of a match of <\s*think\s*> starting at i, or 0
OpenTagEnd(s, i) ==
  IF i > Len(s) \/ s[i] # "<" THEN 0
  ELSE LET j == SkipOver(s, i + 1, Whitespace) IN
       IF j > Len(s) \/ s[j] # "think" THEN 0
       ELSE LET k == SkipOver(s, j + 1, Whitespace) IN
            IF k > Len(s) \/ s[k] # ">" THEN 0 ELSE k

\* the end of a match of </\s*think\s*> starting at i, or 0
CloseTagEnd(s, i) ==
  IF i + 1 > Len(s) \/ s[i] # "<" \/ s[i + 1] # "/" THEN 0
  ELSE LET j == SkipOver(s, i + 2, Whitespace) IN
       IF j > Len(s) \/ s[j] # "think" THEN 0
       ELSE LET k == SkipOver(s, j + 1, Whitespace) IN
            IF k > Len(s) \/ s[k] # ">" THEN 0 ELSE k

RECURSIVE FirstCloseEnd(_, _)
\* the end of the first closing tag that starts at or after i, or 0
FirstCloseEnd(s, i) ==
  IF i > Len(s) THEN 0
  ELSE IF CloseTagEnd(s, i) > 0 THEN CloseTagEnd(s, i)
  ELSE FirstCloseEnd(s, i + 1)

RECURSIVE RemoveThinkTagsFrom(_, _)
RemoveThinkTagsFrom(s, i) ==
  IF i > Len(s) THEN <<>>
  ELSE LET e == OpenTagEnd(s, i)
           c == IF e > 0 THEN FirstCloseEnd(s, e + 1) ELSE 0
       IN IF c > 0 THEN RemoveThinkTagsFrom(s, c + 1)
          ELSE <<s[i]>> \o RemoveThinkTagsFrom(s, i + 1)

\* re.sub(r'<\s*think\s*>.*?</\s*think\s*>', '', text, IGNORECASE | DOTALL)
RemoveThinkTags(s) == RemoveThinkTagsFrom(s, 1)

DoneThinking == <<"done", " ", "think", "ing", ".">>

\* the end of a match of think[\.\s]*\.+\s*done thinking\. starting at i, or 0
DoneThinkingEnd(s, i) ==
  IF i > Len(s) \/ s[i] # "think" THEN 0
  ELSE LET j == SkipOver(s, i + 1, Whitespace \cup {"."}) IN
       IF /\ \E p \in (i + 1)..(j - 1) : s[p] = "."
          /\ j + 4 <= Len(s)
          /\ SubSeq(s, j, j + 4) = DoneThinking
         THEN j + 4
         ELSE 0

RECURSIVE RemoveDoneThinkingFrom(_, _)
RemoveDoneThinkingFrom(s, i) ==
  IF i > Len(s) THEN <<>>
  ELSE LET e == DoneThinkingEnd(s, i)
       IN IF e > 0 THEN RemoveDoneThinkingFrom(s, e + 1)
          ELSE <<s[i]>> \o RemoveDoneThinkingFrom(s, i + 1)

\* re.sub(r'think[\.\s]*\.+\s*done thinking\.', '', text, IGNORECASE)
RemoveDoneThinking(s) == RemoveDoneThinkingFrom(s, 1)

RECURSIVE IndexOf(_, _, _)
\* the first position >= i of s that holds tok (Len(s)+1 if none)
IndexOf(s, i, tok) ==
  IF i > Len(s) \/ s[i] = tok THEN i ELSE IndexOf(s, i + 1, tok)

RECURSIVE SplitLines(_)
\* the lines of s (the text between the newlines), at least one
SplitLines(s) ==
  LET n == IndexOf(s, 1, "\n")
  IN IF n > Len(s) THEN <<s>>
     ELSE <<SubSeq(s, 1, n - 1)>> \o SplitLines(SubSeq(s, n + 1, Len(s)))

RECURSIVE JoinLines(_)
JoinLines(ls) ==
  IF Len(ls) = 1 THEN ls[1] ELSE ls[1] \o <<"\n">> \o JoinLines(Tail(ls))

StripBlank(line) == RStrip(LStrip(line, Blank), Blank)

\* re.sub(r'^[ \t]*thinking[ \t]*$', '', text, IGNORECASE | MULTILINE)
RemoveThinkingLines(s) ==
  LET ls == SplitLines(s)
  IN JoinLines([q \in 1..Len(ls) |->
       IF StripBlank(ls[q]) = <<"think", "ing">> THEN <<>> ELSE ls[q]])

\* re.sub(r'^[ \t]+|[ \t]+$', '', text, MULTILINE)
StripLines(s) ==
  LET ls == SplitLines(s)
  IN JoinLines([q \in 1..Len(ls) |-> StripBlank(ls[q])])

clean_text(text) ==
  IF text = <<>> THEN <<>>
  ELSE Strip(CollapseWs(StripLines(RemoveThinkingLines(
         RemoveDoneThinking(RemoveThinkTags(text))))))

\* summary.startswith("[Error")
StartsWithError(s) == s # <<>> /\ s[1] = "[Error"


(***************************************************************************)
(* State                                                                   *)
(***************************************************************************)
VARIABLES
  \* the orchestrator process (article_processor.py main)
  pc,            \* the step main is at: "idle" (not started) .. "exited"
  args,          \* host, url, ollama_model, summary_length, allow_repeated
  trace,         \* the requests, cache accesses and prints of this run, in order
  stdout,        \* what the run has written to standard output
  exitStatus,    \* the process's exit status, NoStatus while it runs
  content,       \* main's content
  api_response,  \* generate_summary's response: status ok, "response" field
  summary,       \* main's summary
  isFallback,    \* the fallback marker was substituted (main, line 304)
  unload_errors, \* unload_errors of the last unload_ollama_models call
  cacheAtStart,  \* the cache as it was when the run was started
  \* the environment
  cache,         \* ~/.cache/article3: cache file -> exists, mtime, content
  now,           \* time.time(), in hours
  summarised,    \* the URLs for which some run has printed a summary so far
  \* clean_text applied to a text, and to its own result
  cpc,           \* "input", then "cleaned", then "recleaned"
  input_text,    \* the text given to clean_text
  cleaned,       \* clean_text(input_text)
  recleaned,     \* clean_text(cleaned)
  \* the benchmark driver (llmbench.py main)
  dpc,             \* the step the driver is at: "off" (not started) .. "done"
  cfg,             \* host, max_length, models, urls, runs
  ui, mi, run,     \* the url, the model and the run the loops are at
  cache_info,      \* get_cache_info(url) of the current url
  times,           \* times of the current (url, model) pair
  successful_runs, \* successful_runs of the current pair
  result,          \* the last result of run_article3_script
  report,          \* the rows written to the CSV report, header aside
  flushed,         \* how many of them f.flush() has pushed to the file
  stats,           \* the "Stats:" lines printed, one per pair that has one
  final_view,      \* the lines of the final "=== SUMMARY ===" view
  driverExit       \* what the driver's main returned

procVars == <<pc, args, trace, stdout, exitStatus, content, api_response, summary,
              isFallback, unload_errors, cacheAtStart>>
cleanVars == <<cpc, input_text, cleaned, recleaned>>
envVars == <<cache, now, summarised, cleanVars>>
loopVars == <<ui, mi, run, cache_info, times, successful_runs, result>>
outVars == <<report, flushed, stats, final_view>>
drvVars == <<dpc, cfg, loopVars, outVars, driverExit>>
vars == <<procVars, envVars, drvVars>>

NoStatus == -1
NoArgs == [host |-> "", url |-> "", ollama_model |-> "",
           summary_length |-> 0, allow_repeated |-> ""]
NoResponse == [ok |-> FALSE, has |-> FALSE, text |-> <<>>]
NoFile == [exists |-> FALSE, mtime |-> 0, content |-> <<>>]

\* hashlib.md5(url.encode()).hexdigest(): one name per URL
Md5(url) == CASE url = "u1" -> "d1" [] url = "u2" -> "d2" [] OTHER -> "d0"

\* get_cache_file(url): the cache file of a URL
get_cache_file(url) == <<".cache/article3", Md5(url), ".txt">>

CacheFiles == {get_cache_file(u) : u \in Urls}

\* soup.get_text(...) of a page, then re.sub(r'\s+', ' ', text).strip()
ExtractText(page) == Strip(CollapseWs(page))

\* (current_time - file_mtime) / 3600
cache_age_hours(file) == now - cache[file].mtime

Exit(code) == pc' = "exited" /\ exitStatus' = code

Log(event) == trace' = Append(trace, event)

\* the events of a run
Events(tr) == {tr[k] : k \in 1..Len(tr)}
Last(tr) == IF tr = <<>> THEN "" ELSE tr[Len(tr)]

(***************************************************************************)
(* The orchestrator run: main, one action per step                         *)
(***************************************************************************)
\* main, lines 253-267: the arguments; fewer than two of them is a usage error
Main(argv) ==
  /\ pc \in {"idle", "exited"}
  /\ trace' = <<>>
  /\ stdout' = <<>>
  /\ content' = <<>>
  /\ api_response' = NoResponse
  /\ summary' = <<>>
  /\ isFallback' = FALSE
  /\ unload_errors' = 0
  /\ cacheAtStart' = cache
  /\ IF Len(argv) < 2
       THEN /\ args' = NoArgs
            /\ Exit(1)
       ELSE /\ args' = [host |-> argv[1],
                        url |-> argv[2],
                        ollama_model |->
                          IF Len(argv) > 2 THEN argv[3] ELSE DefaultModel,
                        summary_length |->
                          IF Len(argv) > 3 THEN argv[4] ELSE DefaultSummaryLength,
                        allow_repeated |->
                          IF Len(argv) > 4 THEN argv[5] ELSE DefaultAllowRepeated]
            /\ pc' = "check_server"
            /\ exitStatus' = NoStatus
  /\ UNCHANGED envVars

\* check_ollama_server without its sys.exit(1): a failed request is reported
\* and the run goes on
check_ollama_server_no_exit(ok) ==
  /\ pc = "check_server"
  /\ IF args.host = ""
       THEN Exit(1) /\ UNCHANGED trace
       ELSE /\ Log(IF ok THEN "server reachable" ELSE "server unreachable")
            /\ pc' = "check_model"
            /\ UNCHANGED exitStatus
  /\ UNCHANGED <<args, stdout, content, api_response, summary, isFallback, unload_errors,
                 cacheAtStart, envVars,
                 drvVars>>

\* check_ollama_server: GET /api/tags answers (ok) or fails
check_ollama_server(ok) ==
  /\ pc = "check_server"
  /\ IF args.host = ""
       THEN Exit(1) /\ UNCHANGED trace
       ELSE IF ok
         THEN /\ Log("server reachable")
              /\ pc' = "check_model"
              /\ UNCHANGED exitStatus
         ELSE /\ Log("server unreachable")
              /\ Exit(1)
  /\ UNCHANGED <<args, stdout, content, api_response, summary, isFallback, unload_errors,
                 cacheAtStart, envVars,
                 drvVars>>

\* check_model_available without the sys.exit(1) of a model that is not listed
check_model_available_no_exit(ok, models) ==
  /\ pc = "check_model"
  /\ IF args.host = ""
       THEN Exit(1) /\ UNCHANGED trace
       ELSE IF ok
         THEN /\ Log(IF args.ollama_model \in models THEN "model available"
                     ELSE "model not found")
              /\ pc' = "cache_setup"
              /\ UNCHANGED exitStatus
         ELSE /\ Log("listing failed")
              /\ Exit(1)
  /\ UNCHANGED <<args, stdout, content, api_response, summary, isFallback,
                 unload_errors, cacheAtStart, envVars, drvVars>>

\* check_model_available: the listing request answers with the names in models
check_model_available(ok, models) ==
  /\ pc = "check_model"
  /\ IF args.host = ""
       THEN Exit(1) /\ UNCHANGED trace
       ELSE IF ok /\ args.ollama_model \in models
         THEN /\ Log("model available")
              /\ pc' = "cache_setup"
              /\ UNCHANGED exitStatus
         ELSE /\ Log(IF ok THEN "model not found" ELSE "listing failed")
              /\ Exit(1)
  /\ UNCHANGED <<args, stdout, content, api_response, summary, isFallback, unload_errors,
                 cacheAtStart, envVars,
                 drvVars>>

\* check_repeated_content with the age left in seconds (no division by 3600)
check_repeated_content_seconds(cache_file, allow_repeated) ==
  IF allow_repeated = REPEATED THEN FALSE
  ELSE /\ cache[cache_file].exists
       /\ cache_age_hours(cache_file) * 3600 < RepeatWindowHours

\* check_repeated_content with a window half as long as the fetch's
check_repeated_content_half_window(cache_file, allow_repeated) ==
  IF allow_repeated = REPEATED THEN FALSE
  ELSE /\ cache[cache_file].exists
       /\ cache_age_hours(cache_file) * 2 < RepeatWindowHours

\* check_repeated_content(cache_file, allow_repeated): "REPEATED" or None
check_repeated_content(cache_file, allow_repeated) ==
  IF allow_repeated = REPEATED THEN FALSE
  ELSE /\ cache[cache_file].exists
       /\ cache_age_hours(cache_file) < RepeatWindowHours

\* main without the unload of line 280: the fetch follows the repeat check
CacheSetupSkipUnload ==
  /\ pc = "cache_setup"
  /\ IF check_repeated_content(get_cache_file(args.url), args.allow_repeated)
       THEN /\ stdout' = stdout \o <<"REPEATED", "\n">>
            /\ Log("print REPEATED")
            /\ Exit(0)
       ELSE /\ pc' = "fetch"
            /\ UNCHANGED <<stdout, trace, exitStatus>>
  /\ UNCHANGED <<args, content, api_response, summary, isFallback,
                 unload_errors, cacheAtStart, envVars, drvVars>>

\* main, lines 273-277: the cache file, and the short circuit on a fresh entry
CacheSetup ==
  /\ pc = "cache_setup"
  /\ IF check_repeated_content(get_cache_file(args.url), args.allow_repeated)
       THEN /\ stdout' = stdout \o <<"REPEATED", "\n">>
            /\ Log("print REPEATED")
            /\ Exit(0)
       ELSE /\ pc' = "unload_pre"
            /\ UNCHANGED <<stdout, trace, exitStatus>>
  /\ UNCHANGED <<args, content, api_response, summary, isFallback, unload_errors,
                 cacheAtStart, envVars,
                 drvVars>>

UnloadOutcomes == {"unloaded", "request failed", "still loaded"}

\* unload_ollama_models: GET /api/ps answers (ok) with the loaded models;
\* each gets an unload directive and a second /api/ps, with the outcome given
unload_ollama_models(ok, loaded, outcome) ==
  IF args.host = ""
    THEN Exit(1) /\ UNCHANGED <<trace, unload_errors>>
    ELSE /\ Log("unload_ollama_models")
         /\ unload_errors' =
              IF ok THEN Cardinality({m \in loaded : outcome[m] # "unloaded"})
              ELSE 0
         /\ UNCHANGED exitStatus

\* main, line 280, with an unload that exits when a request of it has failed
\* or a model is still loaded
UnloadBeforeFatal(ok, loaded, outcome) ==
  /\ pc = "unload_pre"
  /\ Log("unload_ollama_models")
  /\ unload_errors' =
       IF ok THEN Cardinality({m \in loaded : outcome[m] # "unloaded"}) ELSE 0
  /\ IF ok /\ unload_errors' = 0
       THEN pc' = "fetch" /\ UNCHANGED exitStatus
       ELSE Exit(1)
  /\ UNCHANGED <<args, stdout, content, api_response, summary, isFallback,
                 cacheAtStart, envVars, drvVars>>

\* main, line 280
UnloadBefore(ok, loaded, outcome) ==
  /\ pc = "unload_pre"
  /\ unload_ollama_models(ok, loaded, outcome)
  /\ IF args.host = "" THEN TRUE ELSE pc' = "fetch"
  /\ UNCHANGED <<args, stdout, content, api_response, summary, isFallback,
                 cacheAtStart, envVars,
                 drvVars>>

\* fetch_article_content with <= for <: an entry of exactly 24 hours is fresh
cache_is_fresh_inclusive(cache_file) ==
  cache[cache_file].exists /\ cache_age_hours(cache_file) <= CacheFreshHours

\* fetch_article_content, lines 192-197: the entry exists and is younger than
\* 24 hours
cache_is_fresh(cache_file) ==
  cache[cache_file].exists /\ cache_age_hours(cache_file) < CacheFreshHours

\* fetch_article_content that falls back on the expired entry when the GET
\* fails
fetch_article_content_stale_fallback(ok, page) ==
  /\ pc = "fetch"
  /\ LET cache_file == get_cache_file(args.url) IN
     IF cache_is_fresh(cache_file)
       THEN /\ content' = cache[cache_file].content
            /\ Log("read cache")
            /\ pc' = "generate"
            /\ UNCHANGED <<cache, exitStatus>>
       ELSE IF ok
         THEN LET extracted == ExtractText(page) IN
              /\ cache' = [cache EXCEPT ![cache_file] =
                             [exists |-> TRUE, mtime |-> now,
                              content |-> extracted]]
              /\ content' = extracted
              /\ trace' = trace \o <<"GET url", "write cache">>
              /\ pc' = "generate"
              /\ UNCHANGED exitStatus
         ELSE /\ Log("GET url failed")
              /\ IF cache[cache_file].exists
                   THEN /\ content' = cache[cache_file].content
                        /\ pc' = "generate"
                        /\ UNCHANGED exitStatus
                   ELSE Exit(1) /\ UNCHANGED content
              /\ UNCHANGED cache
  /\ UNCHANGED <<args, stdout, api_response, summary, isFallback,
                 unload_errors, cacheAtStart, now, summarised, cleanVars,
                 drvVars>>

\* fetch_article_content that opens the cache file for writing before the
\* GET: a failed fetch leaves an empty entry
fetch_article_content_truncates(ok, page) ==
  /\ pc = "fetch"
  /\ LET cache_file == get_cache_file(args.url) IN
     IF cache_is_fresh(cache_file)
       THEN /\ content' = cache[cache_file].content
            /\ Log("read cache")
            /\ pc' = "generate"
            /\ UNCHANGED <<cache, exitStatus>>
       ELSE IF ok
         THEN LET extracted == ExtractText(page) IN
              /\ cache' = [cache EXCEPT ![cache_file] =
                             [exists |-> TRUE, mtime |-> now,
                              content |-> extracted]]
              /\ content' = extracted
              /\ trace' = trace \o <<"GET url", "write cache">>
              /\ pc' = "generate"
              /\ UNCHANGED exitStatus
         ELSE /\ Log("GET url failed")
              /\ Exit(1)
              /\ cache' = [cache EXCEPT ![cache_file] =
                             [exists |-> TRUE, mtime |-> now,
                              content |-> <<>>]]
              /\ UNCHANGED content
  /\ UNCHANGED <<args, stdout, api_response, summary, isFallback,
                 unload_errors, cacheAtStart, now, summarised, cleanVars,
                 drvVars>>

\* fetch_article_content: the cached text of an entry younger than 24 hours,
\* else an HTTP GET of the URL, which answers (ok) with page or fails
fetch_article_content(ok, page) ==
  /\ pc = "fetch"
  /\ LET cache_file == get_cache_file(args.url) IN
     IF cache_is_fresh(cache_file)
       THEN /\ content' = cache[cache_file].content
            /\ Log("read cache")
            /\ pc' = "generate"
            /\ UNCHANGED <<cache, exitStatus>>
       ELSE IF ok
         THEN LET text == ExtractText(page) IN
              /\ cache' = [cache EXCEPT ![cache_file] =
                             [exists |-> TRUE, mtime |-> now, content |-> text]]
              /\ content' = text
              /\ trace' = trace \o <<"GET url", "write cache">>
              /\ pc' = "generate"
              /\ UNCHANGED exitStatus
         ELSE /\ Log("GET url failed")
              /\ Exit(1)
              /\ UNCHANGED <<cache, content>>
  /\ UNCHANGED <<args, stdout, api_response, summary, isFallback, unload_errors,
                 cacheAtStart, now, summarised, cleanVars,
                 drvVars>>

\* generate_summary whose missing or empty "response" is passed on as an empty
\* summary instead of ending the run
generate_summary_no_exit(ok, has, response) ==
  /\ pc = "generate"
  /\ api_response' = [ok |-> ok, has |-> ok /\ has,
                       text |-> IF ok /\ has THEN response ELSE <<>>]
  /\ IF ok
       THEN /\ Log(IF has /\ response # <<>> THEN "POST /api/generate"
                   ELSE "no response")
            /\ summary' = IF has THEN clean_text(response) ELSE <<>>
            /\ pc' = "validate"
            /\ UNCHANGED exitStatus
       ELSE /\ Log("generate failed")
            /\ Exit(1)
            /\ UNCHANGED summary
  /\ UNCHANGED <<args, stdout, content, isFallback, unload_errors,
                 cacheAtStart, envVars, drvVars>>

\* generate_summary: POST /api/generate answers (ok) with a body that has a
\* "response" field (has) holding response, or fails
generate_summary(ok, has, response) ==
  /\ pc = "generate"
  /\ IF args.host = ""
       THEN Exit(1) /\ UNCHANGED <<trace, summary, api_response>>
       ELSE /\ api_response' = [ok |-> ok, has |-> ok /\ has,
                                 text |-> IF ok /\ has THEN response ELSE <<>>]
            /\ IF ok /\ has /\ response # <<>>
                 THEN /\ Log("POST /api/generate")
                      /\ summary' = clean_text(response)
                      /\ pc' = "validate"
                      /\ UNCHANGED exitStatus
                 ELSE /\ Log(IF ok THEN "no response" ELSE "generate failed")
                      /\ Exit(1)
                      /\ UNCHANGED summary
  /\ UNCHANGED <<args, stdout, content, isFallback, unload_errors,
                 cacheAtStart, envVars, drvVars>>

\* main, lines 301-313: the fallback for an empty summary, the length warning
\* (standard error only) and the summary on standard output
Validate ==
  /\ pc = "validate"
  /\ LET empty == summary = <<>> \/ Strip(summary) = <<>>
         out == IF empty THEN FallbackMarker ELSE summary
     IN /\ summary' = out
        /\ isFallback' = empty
        /\ stdout' = stdout \o out \o <<"\n">>
  /\ Log("print summary")
  /\ summarised' = summarised \cup {args.url}
  /\ pc' = "unload_post"
  /\ UNCHANGED <<args, exitStatus, content, api_response, unload_errors,
                 cacheAtStart, cache, now, cleanVars, drvVars>>

\* main, line 316
UnloadAfter(ok, loaded, outcome) ==
  /\ pc = "unload_post"
  /\ unload_ollama_models(ok, loaded, outcome)
  /\ IF args.host = "" THEN TRUE ELSE pc' = "exit"
  /\ UNCHANGED <<args, stdout, content, api_response, summary, isFallback,
                 cacheAtStart, envVars,
                 drvVars>>

\* main, line 317: sys.exit(0 if not summary.startswith("[Error") else 1)
MainExit ==
  /\ pc = "exit"
  /\ Exit(IF ~StartsWithError(summary) THEN 0 ELSE 1)
  /\ UNCHANGED <<args, trace, stdout, content, api_response, summary, isFallback,
                 unload_errors, cacheAtStart, envVars,
                 drvVars>>

\* time passes
Tick(d) ==
  /\ now + d <= MaxTime
  /\ now' = now + d
  /\ UNCHANGED <<procVars, cache, summarised, cleanVars,
                 drvVars>>

(***************************************************************************)
(* The benchmark driver: llmbench.py                                       *)
(***************************************************************************)
\* run_article3_script: subprocess.run(..., timeout=300), in milliseconds
TimeoutMs == 300000
\* main, line 207: the summary column keeps 100 characters
ExcerptChars == 100
\* cache_age of a URL that has no cache file (None)
NoAge == -1

NoResult == [success |-> FALSE, summary |-> <<>>, time |-> 0, error |-> <<>>,
             stdout |-> <<>>]
NoCacheInfo == [cache_file |-> <<>>, cache_exists |-> FALSE,
                cache_age_hours |-> NoAge]
NoCfg == [host |-> "", max_length |-> 0, models |-> <<>>, urls |-> <<>>,
          runs |-> 0]

\* '-embedding' in m
IsEmbedding(m) == m \in {"nomic-embedding"}

RECURSIVE FilterModels(_)
\* main, line 123: [m for m in ms if m and '-embedding' not in m]
FilterModels(ms) ==
  IF ms = <<>> THEN <<>>
  ELSE IF Head(ms) # "" /\ ~IsEmbedding(Head(ms))
    THEN <<Head(ms)>> \o FilterModels(Tail(ms))
    ELSE FilterModels(Tail(ms))

\* row['Success'] compared as it is, without .lower()
LowerOmitted(cell) == cell

\* str(True), str(False): what csv.writer writes for a bool
PyStr(b) == IF b THEN "True" ELSE "False"
\* str.lower() of a cell
Lower(cell) ==
  CASE cell = "True" -> "true" [] cell = "False" -> "false" [] OTHER -> cell

\* str(returncode)
RcText(rc) == CASE rc = 0 -> "0" [] rc = 1 -> "1" [] rc = 2 -> "2" [] OTHER -> "?"

\* f"{t:.2f}" then float(): milliseconds to the hundredths the cell keeps
Format2(ms) == (ms + 5) \div 10

RECURSIVE TakeChars(_, _)
\* text[:n]
TakeChars(s, n) ==
  IF s = <<>> \/ CharLen(Head(s)) > n THEN <<>>
  ELSE <<Head(s)>> \o TakeChars(Tail(s), n - CharLen(Head(s)))

\* main, line 207: the summary column
Excerpt(text) ==
  IF text # <<>> /\ TextLen(text) > ExcerptChars
    THEN TakeChars(text, ExcerptChars) \o <<".", ".", ".">>
    ELSE text

\* the command line without its last argument
CmdWithoutFlag(host, url, model, summary_length) ==
  <<"./article3.sh", host, url, model, summary_length>>

\* run_article3_script, lines 21-28: the command line; "REPEATED" always
Cmd(host, url, model, summary_length) ==
  <<"./article3.sh", host, url, model, summary_length, REPEATED>>

\* article3.sh hands its arguments to article_processor.py
article3_sh(cmd) == Tail(cmd)

\* get_cache_info(url)
get_cache_info(url) ==
  LET cache_file == get_cache_file(url)
      cache_exists == cache[cache_file].exists
  IN [cache_file |-> cache_file,
      cache_exists |-> cache_exists,
      cache_age_hours |-> IF cache_exists THEN cache_age_hours(cache_file)
                          ELSE NoAge]

\* main, lines 104-154: the arguments, the checks and the report's header
DriverMain(script_ok, host, max_length, models_arg, urls_arg, runs) ==
  /\ dpc = "off"
  /\ LET models == FilterModels(models_arg) IN
     IF ~script_ok \/ models = <<>> \/ urls_arg = <<>>
       THEN /\ dpc' = "done"
            /\ driverExit' = 1
            /\ UNCHANGED cfg
       ELSE /\ cfg' = [host |-> host, max_length |-> max_length,
                       models |-> models, urls |-> urls_arg, runs |-> runs]
            /\ dpc' = "url"
            /\ UNCHANGED driverExit
  /\ ui' = 1
  /\ UNCHANGED <<mi, run, cache_info, times, successful_runs, result,
                 outVars, procVars, envVars>>

\* main, lines 156-161: for url in urls: cache_info = get_cache_info(url)
UrlStart ==
  /\ dpc = "url"
  /\ cache_info' = get_cache_info(cfg.urls[ui])
  /\ mi' = 1
  /\ dpc' = "model"
  /\ UNCHANGED <<cfg, ui, run, times, successful_runs, result, outVars,
                 driverExit, procVars, envVars>>

\* main, lines 163-167: for model in models: times = [] ...
ModelStart ==
  /\ dpc = "model"
  /\ times' = <<>>
  /\ successful_runs' = 0
  /\ run' = 0
  /\ dpc' = "run"
  /\ UNCHANGED <<cfg, ui, mi, cache_info, result, outVars, driverExit,
                 procVars, envVars>>

\* main's loop body writing a row for the successful runs only
RecordRunSuccessOnly(res) ==
  /\ result' = res
  /\ times' = Append(times, res.time)
  /\ successful_runs' = IF res.success THEN successful_runs + 1
                        ELSE successful_runs
  /\ report' = IF res.success
                 THEN Append(report,
                        [URL |-> cfg.urls[ui], Model |-> cfg.models[mi],
                         Run |-> run + 1, Time |-> (res.time + 5) \div 10,
                         Success |-> "True",
                         SummaryLength |-> TextLen(res.summary),
                         TargetLength |-> cfg.max_length,
                         LengthMatch |-> "True",
                         CacheUsed |-> "True", CacheAge |-> 0,
                         Error |-> res.error, Summary |-> res.summary])
                 ELSE report
  /\ flushed' = Len(report')
  /\ run' = run + 1
  /\ dpc' = "run"
  /\ UNCHANGED <<cfg, ui, mi, cache_info, stats, final_view, driverExit>>

\* main's loop body calling get_cache_info(url) anew for each row
RecordRunResampled(res) ==
  LET summary_length == IF res.success THEN TextLen(res.summary) ELSE 0
      length_match == IF res.success THEN summary_length <= cfg.max_length
                      ELSE FALSE
      info == get_cache_info(cfg.urls[ui])
      row == [URL |-> cfg.urls[ui],
              Model |-> cfg.models[mi],
              Run |-> run + 1,
              Time |-> Format2(res.time),
              Success |-> PyStr(res.success),
              SummaryLength |-> summary_length,
              TargetLength |-> cfg.max_length,
              LengthMatch |-> PyStr(length_match),
              CacheUsed |-> PyStr(info.cache_exists),
              CacheAge |-> IF info.cache_age_hours = NoAge THEN 0
                           ELSE info.cache_age_hours,
              Error |-> res.error,
              Summary |-> Excerpt(res.summary)]
  IN /\ result' = res
     /\ times' = Append(times, res.time)
     /\ successful_runs' = IF res.success THEN successful_runs + 1
                           ELSE successful_runs
     /\ report' = Append(report, row)
     /\ flushed' = Len(report) + 1
     /\ run' = run + 1
     /\ dpc' = "run"
     /\ UNCHANGED <<cfg, ui, mi, cache_info, stats, final_view, driverExit>>

\* main, lines 180-209: the row of one run, written and flushed
RecordRun(res) ==
  LET summary_length == IF res.success THEN TextLen(res.summary) ELSE 0
      length_match == IF res.success THEN summary_length <= cfg.max_length
                      ELSE FALSE
      row == [URL |-> cfg.urls[ui],
              Model |-> cfg.models[mi],
              Run |-> run + 1,
              Time |-> Format2(res.time),
              Success |-> PyStr(res.success),
              SummaryLength |-> summary_length,
              TargetLength |-> cfg.max_length,
              LengthMatch |-> PyStr(length_match),
              CacheUsed |-> PyStr(cache_info.cache_exists),
              CacheAge |-> IF cache_info.cache_age_hours = NoAge THEN 0
                           ELSE cache_info.cache_age_hours,
              Error |-> res.error,
              Summary |-> Excerpt(res.summary)]
  IN /\ result' = res
     /\ times' = Append(times, res.time)
     /\ successful_runs' = IF res.success THEN successful_runs + 1
                           ELSE successful_runs
     /\ report' = Append(report, row)
     /\ flushed' = Len(report) + 1
     /\ run' = run + 1
     /\ dpc' = "run"
     /\ UNCHANGED <<cfg, ui, mi, cache_info, stats, final_view, driverExit>>

\* run_article3_script, lines 21-39: the orchestrator is started as a process
RunStart ==
  /\ dpc = "run"
  /\ run < cfg.runs
  /\ Main(article3_sh(Cmd(cfg.host, cfg.urls[ui], cfg.models[mi],
                          cfg.max_length)))
  /\ dpc' = "wait"
  /\ UNCHANGED <<cfg, loopVars, outVars, driverExit>>

\* run_article3_script, lines 73-81: subprocess.run raises (the script cannot
\* be executed); elapsed is the time until then
RunException(elapsed) ==
  /\ dpc = "run"
  /\ run < cfg.runs
  /\ RecordRun([success |-> FALSE, summary |-> <<>>, time |-> elapsed,
                error |-> <<"Execution error: ", "OSError">>,
                stdout |-> <<>>])
  /\ UNCHANGED <<procVars, envVars>>

\* run_article3_script, lines 41-62: the process has ended within 300 seconds
RunReturn(elapsed) ==
  /\ dpc = "wait"
  /\ pc = "exited"
  /\ RecordRun(IF exitStatus = 0
                 THEN [success |-> TRUE, summary |-> Strip(stdout),
                       time |-> elapsed, error |-> <<>>, stdout |-> stdout]
                 ELSE [success |-> FALSE, summary |-> <<>>, time |-> elapsed,
                       error |-> <<"Script failed with return code ",
                                   RcText(exitStatus)>>,
                       stdout |-> stdout])
  /\ UNCHANGED <<procVars, envVars>>

\* run_article3_script, lines 64-72: 300 seconds have passed and the process
\* still runs; subprocess.run kills it
RunTimeout ==
  /\ dpc = "wait"
  /\ pc \notin {"idle", "exited", "killed"}
  /\ pc' = "killed"
  /\ RecordRun([success |-> FALSE, summary |-> <<>>, time |-> TimeoutMs,
                error |-> <<"Timeout after 300 seconds">>, stdout |-> <<>>])
  /\ UNCHANGED <<args, trace, stdout, exitStatus, content, api_response, summary,
                 isFallback,
                 unload_errors, cacheAtStart, envVars>>

\* main, line 213: [times[i] for i in range(len(times)) if result['success']]
successful_times == IF result.success THEN times ELSE <<>>

\* main, lines 211-219: the statistics of a (url, model) pair, and the next pair
PairStats ==
  /\ dpc = "run"
  /\ run >= cfg.runs
  /\ stats' = IF successful_runs > 0 /\ successful_times # <<>>
                THEN Append(stats, [url |-> cfg.urls[ui],
                                    model |-> cfg.models[mi],
                                    over |-> successful_times,
                                    successful_runs |-> successful_runs])
                ELSE stats
  /\ IF mi < Len(cfg.models)
       THEN mi' = mi + 1 /\ dpc' = "model" /\ UNCHANGED ui
       ELSE /\ UNCHANGED mi
            /\ ui' = ui + 1
            /\ dpc' = IF ui < Len(cfg.urls) THEN "url" ELSE "summary"
  /\ UNCHANGED <<cfg, run, cache_info, times, successful_runs, result,
                 report, flushed, final_view, driverExit, procVars, envVars>>

RECURSIVE model_stats(_, _)
\* main, lines 232-237: (model, url) -> the times of its successful rows, the
\* keys in the order of their first successful row
model_stats(rows, acc) ==
  IF rows = <<>> THEN acc
  ELSE LET row == Head(rows)
           at == {k \in 1..Len(acc) :
                    acc[k].model = row.Model /\ acc[k].url = row.URL}
       IN IF Lower(row.Success) # "true" THEN model_stats(Tail(rows), acc)
          ELSE IF at = {}
            THEN model_stats(Tail(rows),
                   Append(acc, [model |-> row.Model, url |-> row.URL,
                                times |-> <<row.Time>>]))
            ELSE model_stats(Tail(rows),
                   [k \in 1..Len(acc) |->
                      IF k \in at
                        THEN [acc[k] EXCEPT !.times = Append(@, row.Time)]
                        ELSE acc[k]])

\* main, lines 221-243: the report is read back and summarised
FinalSummary ==
  /\ dpc = "summary"
  /\ final_view' = model_stats(SubSeq(report, 1, flushed), <<>>)
  /\ dpc' = "done"
  /\ driverExit' = 0
  /\ UNCHANGED <<cfg, loopVars, report, flushed, stats, procVars, envVars>>

(***************************************************************************)
(* Specifications                                                          *)
(***************************************************************************)
\* the argument lists of a command line: any prefix of the five arguments
Argvs ==
  {SubSeq(<<h, u, m, l, f>>, 1, n) :
     h \in Hosts, u \in Urls, m \in ModelNames, l \in SummaryLengths,
     f \in AllowFlags, n \in {1, 2, 5}}

\* no run started, nothing cleaned; the cache directory as it is found
InitRun ==
  /\ pc = "idle"
  /\ args = NoArgs
  /\ trace = <<>>
  /\ stdout = <<>>
  /\ exitStatus = NoStatus
  /\ content = <<>>
  /\ api_response = NoResponse
  /\ summary = <<>>
  /\ isFallback = FALSE
  /\ unload_errors = 0
  /\ now = 0
  /\ cache \in [CacheFiles ->
                  {NoFile, [exists |-> TRUE, mtime |-> 0,
                            content |-> ExtractText(OldPage)]}]
  /\ cacheAtStart = cache
  /\ summarised = {}
  /\ cpc = "input"
  /\ cleaned = <<>>
  /\ recleaned = <<>>
  /\ dpc = "off"
  /\ cfg = NoCfg
  /\ ui = 0
  /\ mi = 0
  /\ run = 0
  /\ cache_info = NoCacheInfo
  /\ times = <<>>
  /\ successful_runs = 0
  /\ result = NoResult
  /\ report = <<>>
  /\ flushed = 0
  /\ stats = <<>>
  /\ final_view = <<>>
  /\ driverExit = NoStatus

Init == InitRun /\ input_text = <<>>

\* a run started from the command line
MainCli(argv) == Main(argv) /\ UNCHANGED drvVars

\* the steps of the orchestrator process
Step ==
  \/ \E ok \in BOOLEAN : check_ollama_server(ok)
  \/ \E ok \in BOOLEAN, models \in SUBSET ModelNames :
       check_model_available(ok, models)
  \/ CacheSetup
  \/ \E ok \in BOOLEAN, loaded \in SUBSET ModelNames :
       \E outcome \in [loaded -> UnloadOutcomes] :
         UnloadBefore(ok, loaded, outcome)
  \/ \E ok \in BOOLEAN, page \in PageTexts : fetch_article_content(ok, page)
  \/ \E ok \in BOOLEAN, has \in BOOLEAN, result_text \in Responses :
       generate_summary(ok, has, result_text)
  \/ Validate
  \/ \E ok \in BOOLEAN, loaded \in SUBSET ModelNames :
       \E outcome \in [loaded -> UnloadOutcomes] :
         UnloadAfter(ok, loaded, outcome)
  \/ MainExit

\* Spec: orchestrator runs started from the command line, one after another
Next ==
  \/ \E argv \in Argvs : MainCli(argv)
  \/ Step
  \/ \E d \in TickHours : Tick(d)

Spec == Init /\ [][Next]_vars

\* the arguments of the driver: sweeps of at most maxTests runs
ModelArgs == {<<"m1">>, <<"m1", "nomic-embedding", "qwen3:1.7b">>,
              <<"nomic-embedding">>}
UrlArgs == {<<>>, <<"u1">>, <<"u1", "u2">>}
DriverLengths == {2}
\* the elapsed times of a run that ends by itself, in milliseconds
ElapsedTimes == {1004, 2996}
DriverArgs(maxTests) ==
  {a \in [script_ok : BOOLEAN, host : Hosts \ {""}, max_length : DriverLengths,
          models : ModelArgs, urls : UrlArgs, runs : 1..MaxRuns] :
     Len(a.urls) * Len(FilterModels(a.models)) * a.runs <= maxTests}

\* the steps of the driver, its start aside; a run that ends by itself takes
\* one of the given times
DriverStep(elapsedTimes) ==
  \/ UrlStart
  \/ ModelStart
  \/ RunStart
  \/ \E elapsed \in elapsedTimes : RunException(elapsed)
  \/ \E elapsed \in elapsedTimes : RunReturn(elapsed)
  \/ RunTimeout
  \/ PairStats
  \/ FinalSummary

\* what article3.sh can leave on standard output
ScriptOutputs == {<<>>, <<"x", "\n">>, <<"x", " ", "x", " ", "x", "\n">>}
ReturnCodes == {0, 1}

\* the process of a run ends with some return code and some output
ScriptEnds(rc, out) ==
  /\ dpc = "wait"
  /\ pc = "check_server"
  /\ pc' = "exited"
  /\ exitStatus' = rc
  /\ stdout' = out
  /\ UNCHANGED <<args, trace, content, api_response, summary, isFallback,
                 unload_errors,
                 cacheAtStart, envVars, drvVars>>

\* SpecBench: the driver, over every outcome a run's process can have
NextBench ==
  \/ \E a \in DriverArgs(MaxTests) :
       DriverMain(a.script_ok, a.host, a.max_length, a.models, a.urls, a.runs)
  \/ DriverStep(ElapsedTimes)
  \/ \E rc \in ReturnCodes, out \in ScriptOutputs : ScriptEnds(rc, out)

SpecBench == Init /\ [][NextBench]_vars

\* SpecSweep: the driver, each run the orchestrator's own run
NextSweep ==
  \/ \E a \in DriverArgs(MaxSweepTests) :
       DriverMain(a.script_ok, a.host, a.max_length, a.models, a.urls, a.runs)
  \/ DriverStep({1004})
  \/ Step
  \/ \E d \in TickHours : Tick(d)

SpecSweep == Init /\ [][NextSweep]_vars

\* SpecEmpty: the runs of Spec, over a cache directory that starts empty
InitEmpty == Init /\ \A f \in CacheFiles : ~cache[f].exists

SpecEmpty == InitEmpty /\ [][Next]_vars

\* the pieces the texts given to clean_text are made of
CleanPieces ==
  { <<"<">>,
    <<"<", "think", ">", "x", "<", "/", "think", ">">>,
    <<"think", ">">>,
    <<"x", "<", "/", "think", ">">>,
    <<"think">>,
    <<"ing">>,
    <<"x">>,
    <<" ">>,
    <<"\n">>,
    <<".", " ", "done", " ", "think", "ing", ".">> }

RECURSIVE Flatten(_)
\* the pieces of a sequence, one after another
Flatten(ps) == IF ps = <<>> THEN <<>> ELSE Head(ps) \o Flatten(Tail(ps))

CleanTexts ==
  UNION {{Flatten(ps) : ps \in [1..n -> CleanPieces]} : n \in 0..MaxPieces}

InitClean ==
  /\ InitRun
  /\ \A f \in CacheFiles : ~cache[f].exists
  /\ input_text \in CleanTexts

\* clean_text(text)
CleanOnce ==
  /\ cpc = "input"
  /\ cleaned' = clean_text(input_text)
  /\ cpc' = "cleaned"
  /\ UNCHANGED <<input_text, recleaned, procVars, cache, now, summarised,
                 drvVars>>

\* clean_text of the result
CleanTwice ==
  /\ cpc = "cleaned"
  /\ recleaned' = clean_text(cleaned)
  /\ cpc' = "recleaned"
  /\ UNCHANGED <<input_text, cleaned, procVars, cache, now, summarised,
                 drvVars>>

NextClean == CleanOnce \/ CleanTwice

\* SpecClean: clean_text applied to a text, then to its own result
SpecClean == InitClean /\ [][NextClean]_vars

(***************************************************************************)
(* The claims                                                              *)
(***************************************************************************)
UnloadEvents == {"unload_ollama_models"}
FetchEvents == {"GET url", "GET url failed"}
CacheWriteEvents == {"write cache"}
GenerateEvents == {"POST /api/generate", "no response", "generate failed"}

\* the cache file of the run's URL
RunFile == get_cache_file(args.url)

\* C1: when the listing request of the server check fails, the run ends with
\* a nonzero exit status; it has issued no fetch of the URL, no unload and no
\* generation request, and every cache entry is as it was when the run began.
C1_UnreachableAborts ==
  "server unreachable" \in Events(trace) =>
    /\ pc = "exited"
    /\ exitStatus # 0 /\ exitStatus # NoStatus
    /\ Last(trace) = "server unreachable"
    /\ Events(trace) \cap (FetchEvents \cup UnloadEvents \cup GenerateEvents
                            \cup CacheWriteEvents) = {}
    /\ cache = cacheAtStart

\* C1's case: the server check has failed in a run whose URL has a cache entry
C1_Witness ==
  /\ pc = "exited"
  /\ Last(trace) = "server unreachable"
  /\ cache[RunFile].exists

\* C2: without the override, a step from the cache check with an entry of the
\* URL younger than 24 hours prints the reuse sentinel and exits with status
\* 0; a run that printed the sentinel has ended, and has issued no fetch of
\* the URL, no unload and no generation request.
C2_FreshEntryShortCircuits ==
  /\ [][(/\ pc = "cache_setup" /\ pc' # pc
         /\ args.allow_repeated # "REPEATED"
         /\ cache[RunFile].exists
         /\ now - cache[RunFile].mtime < 24)
        => (/\ pc' = "exited"
            /\ exitStatus' = 0
            /\ stdout' = <<"REPEATED", "\n">>
            /\ Last(trace') = "print REPEATED")]_vars
  /\ []("print REPEATED" \in Events(trace) =>
         /\ pc = "exited"
         /\ Last(trace) = "print REPEATED"
         /\ Events(trace) \cap (FetchEvents \cup UnloadEvents
                                 \cup GenerateEvents) = {})

\* C2's case: a run without the override has short-circuited on an entry that
\* is 12 hours old
C2_Witness ==
  /\ pc = "exited"
  /\ Last(trace) = "print REPEATED"
  /\ args.allow_repeated # "REPEATED"
  /\ cache[RunFile].exists
  /\ now - cache[RunFile].mtime = 12

\* the run has the override, and its URL had a cache entry when it began
OverrideWithEntry ==
  /\ pc # "idle"
  /\ args.allow_repeated = "REPEATED"
  /\ cacheAtStart[RunFile].exists

C4_NonzeroIffFallback ==
  (pc = "exited" /\ "print summary" \in Events(trace)) =>
    (exitStatus # 0 <=> isFallback)

\* C5, as stated: a run whose generation request succeeded with a response
\* text that cleans to the empty text ends with the fallback marker on
\* standard output and a nonzero exit status.
C5_EmptyCleanedGivesFallback ==
  (/\ pc = "exited"
   /\ api_response.ok /\ api_response.has
   /\ clean_text(api_response.text) = <<>>)
  => /\ stdout = FallbackMarker \o <<"\n">>
     /\ isFallback
     /\ exitStatus # 0

FatalEvents == {"server unreachable", "listing failed", "model not found",
                "GET url failed", "generate failed", "no response"}

\* C6: a fatal step (no host, server check, model check, fetch or generation
\* failing, no response field) is the last step of its run: the run has
\* exited with a nonzero status and standard output is empty.
C6_FatalStepsAbort ==
  /\ \A k \in 1..Len(trace) :
       trace[k] \in FatalEvents =>
         /\ k = Len(trace)
         /\ pc = "exited"
         /\ exitStatus # 0 /\ exitStatus # NoStatus
         /\ stdout = <<>>
  /\ (args.host = "" /\ pc \notin {"idle", "check_server"}) =>
       /\ pc = "exited"
       /\ exitStatus # 0 /\ exitStatus # NoStatus
       /\ trace = <<>>
       /\ stdout = <<>>

\* C6's case: the generation request has failed after the content was fetched
\* and cached
C6_Witness ==
  /\ Last(trace) = "generate failed"
  /\ "write cache" \in Events(trace)
  /\ pc = "exited"

\* C7: every run the driver starts has the flag REPEATED; a run with the flag
\* never prints the reuse sentinel: its step from the cache check goes on to
\* the unload, the content resolution and the generation, and when it has
\* exited it was stopped by a fatal step or it has generated and printed a
\* summary.
C7_DriverRunsNeverShortCircuit ==
  /\ []((dpc # "off" /\ pc # "idle") => args.allow_repeated = "REPEATED")
  /\ [](args.allow_repeated = "REPEATED" =>
          /\ "print REPEATED" \notin Events(trace)
          /\ pc = "exited" =>
               \/ args.host = ""
               \/ Last(trace) \in FatalEvents
               \/ /\ "print summary" \in Events(trace)
                  /\ "POST /api/generate" \in Events(trace)
                  /\ Events(trace) \cap {"read cache", "write cache"} # {})
  /\ [][(/\ pc = "cache_setup" /\ pc' \notin {pc, "killed"}
         /\ args.allow_repeated = "REPEATED")
        => (pc' = "unload_pre" /\ stdout' = stdout)]_vars

\* C7's case: a run of the driver has summarised the content of a cache entry
\* that was younger than 24 hours
C7_Witness ==
  /\ dpc = "wait"
  /\ pc = "exited"
  /\ "read cache" \in Events(trace)
  /\ "print summary" \in Events(trace)

\* the runs the driver has completed, from its place in the loops
CompletedRuns ==
  LET M == Len(cfg.models)
      R == cfg.runs
  IN CASE dpc = "url" -> (ui - 1) * M * R
       [] dpc = "model" -> (ui - 1) * M * R + (mi - 1) * R
       [] dpc \in {"run", "wait"} -> (ui - 1) * M * R + (mi - 1) * R + run
       [] dpc = "summary" -> Len(cfg.urls) * M * R
       [] dpc = "done" /\ driverExit = 0 -> Len(cfg.urls) * M * R
       [] OTHER -> 0

\* the (url, model, run) triple of the k-th run of the sweep
TripleOf(k) ==
  LET M == Len(cfg.models)
      R == cfg.runs
  IN [url |-> cfg.urls[((k - 1) \div (M * R)) + 1],
      model |-> cfg.models[(((k - 1) % (M * R)) \div R) + 1],
      run |-> ((k - 1) % R) + 1]

RECURSIVE TimesOfSuccessful(_, _)
\* the elapsed times of the runs whose row says success
TimesOfSuccessful(ts, rows) ==
  IF ts = <<>> THEN <<>>
  ELSE (IF Head(rows).Success = "True" THEN <<Head(ts)>> ELSE <<>>)
       \o TimesOfSuccessful(Tail(ts), Tail(rows))

\* C9, as stated: after the runs of a pair, the statistic is computed over
\* the elapsed times of exactly the pair's successful runs, and a pair with
\* no successful run has none.
C9_StatsOverSuccessfulRuns ==
  [][(dpc = "run" /\ dpc' \in {"model", "url", "summary"}) =>
       LET rows == SubSeq(report, Len(report) - cfg.runs + 1, Len(report))
           ok == TimesOfSuccessful(times, rows)
       IN IF ok = <<>> THEN stats' = stats
          ELSE /\ Len(stats') = Len(stats) + 1
               /\ stats'[Len(stats')].url = cfg.urls[ui]
               /\ stats'[Len(stats')].model = cfg.models[mi]
               /\ stats'[Len(stats')].over = ok]_vars

\* the times of the successful rows of a (model, url) pair, in the report
SuccessfulRowTimes(m, u) ==
  LET rows == SelectSeq(report, LAMBDA r : /\ r.Model = m /\ r.URL = u
                                           /\ r.Success = "True")
  IN [k \in 1..Len(rows) |-> rows[k].Time]

\* C10: in the final view of a finished sweep, a (model, url) pair with a
\* successful row has exactly one line, over exactly the times of the pair's
\* successful rows; a pair with none has no line.
C10_FinalViewPerPair ==
  (dpc = "done" /\ driverExit = 0) =>
    /\ \A k \in 1..Len(final_view) :
         /\ \E i \in 1..Len(cfg.models) : cfg.models[i] = final_view[k].model
         /\ \E j \in 1..Len(cfg.urls) : cfg.urls[j] = final_view[k].url
    /\ \A i \in 1..Len(cfg.models), j \in 1..Len(cfg.urls) :
         LET m == cfg.models[i]
             u == cfg.urls[j]
             at == {k \in 1..Len(final_view) :
                      final_view[k].model = m /\ final_view[k].url = u}
         IN IF SuccessfulRowTimes(m, u) = <<>> THEN at = {}
            ELSE /\ Cardinality(at) = 1
                 /\ \A k \in at : final_view[k].times = SuccessfulRowTimes(m, u)

\* C10's case: a finished sweep of two pairs of two runs each, one pair with
\* two successful runs of different times, the other with a failed run and a
\* successful one
C10_Witness ==
  /\ dpc = "done" /\ driverExit = 0
  /\ Len(report) = 4
  /\ Len(final_view) = 2
  /\ \E a, b \in 1..2 :
       /\ Len(final_view[a].times) = 2
       /\ final_view[a].times[1] # final_view[a].times[2]
       /\ Len(final_view[b].times) = 1
       /\ \E k \in 1..4 : /\ report[k].Success = "False"
                          /\ report[k].Model = final_view[b].model
                          /\ report[k].URL = final_view[b].url

\* the run has printed a summary that is its cleaned response (no fallback)
\* and is longer than the target length
OverlongSummary ==
  /\ "print summary" \in Events(trace)
  /\ ~isFallback
  /\ TextLen(summary) > args.summary_length

\* C11, as stated: a run whose non-empty cleaned summary is longer than the
\* target prints it unchanged and exits with status 0; the driver's row of
\* that run has Success True and LengthMatch False; and the LengthMatch of a
\* successful row is True exactly when its summary length is at most the
\* target.
C11_OverlongAccepted ==
  /\ []((OverlongSummary /\ pc = "exited") =>
          /\ stdout = summary \o <<"\n">>
          /\ summary = clean_text(api_response.text)
          /\ exitStatus = 0)
  /\ [](\A k \in 1..Len(report) :
          report[k].Success = "True" =>
            (report[k].LengthMatch = "True"
               <=> report[k].SummaryLength <= report[k].TargetLength))
  /\ [][(dpc = "wait" /\ dpc' = "run" /\ pc = "exited" /\ OverlongSummary) =>
          /\ report'[Len(report')].Success = "True"
          /\ report'[Len(report')].LengthMatch = "False"
          /\ report'[Len(report')].SummaryLength = TextLen(summary)]_vars

\* C11 for the summaries that do not begin with "[Error": this much holds
C11_OverlongAcceptedUnlessErrorPrefix ==
  /\ []((OverlongSummary /\ pc = "exited" /\ ~StartsWithError(summary)) =>
          /\ stdout = summary \o <<"\n">>
          /\ summary = clean_text(api_response.text)
          /\ exitStatus = 0)
  /\ [](\A k \in 1..Len(report) :
          report[k].Success = "True" =>
            (report[k].LengthMatch = "True"
               <=> report[k].SummaryLength <= report[k].TargetLength))
  /\ [][(/\ dpc = "wait" /\ dpc' = "run" /\ pc = "exited" /\ OverlongSummary
         /\ ~StartsWithError(summary)) =>
          /\ report'[Len(report')].Success = "True"
          /\ report'[Len(report')].LengthMatch = "False"
          /\ report'[Len(report')].SummaryLength = TextLen(summary)]_vars

\* the events of content resolution: the cache read or the HTTP fetch
ResolutionEvents == {"read cache", "GET url", "GET url failed"}

\* C12, as stated: in a run that does not short-circuit, the pre-generation
\* unload begins only after content resolution has completed, and the
\* generation request is issued only after that unload.
C12_ResolveBeforeUnloadBeforeGenerate ==
  \A k \in 1..Len(trace) :
    /\ (/\ trace[k] \in UnloadEvents
        /\ \A j \in 1..(k - 1) : trace[j] # "print summary") =>
         \E j \in 1..(k - 1) : trace[j] \in ResolutionEvents
    /\ trace[k] \in GenerateEvents =>
         \E j \in 1..(k - 1) : trace[j] \in UnloadEvents

\* C13: a generation request is issued only after, in the same run, the
\* server check has succeeded, then the model check has succeeded, then
\* unload_ollama_models has been called.
C13_GenerateOnlyAfterChecksAndUnload ==
  \A k \in 1..Len(trace) :
    trace[k] \in GenerateEvents =>
      \E a, b, c \in 1..(k - 1) :
        /\ a < b /\ b < c
        /\ trace[a] = "server reachable"
        /\ trace[b] = "model available"
        /\ trace[c] \in UnloadEvents

\* C13's case: the generation request of a run has been issued
C13_Witness ==
  /\ pc = "validate"
  /\ Last(trace) = "POST /api/generate"

\* C14: the step of an unload, before the generation or as the final
\* cleanup, goes on to the next step of main whatever the outcome of the
\* unload's requests, leaving the output, the summary and the exit status as
\* they were; the output and the exit status of a run that has printed its
\* summary are those the summary alone gives.
C14_UnloadNeverFatal ==
  /\ [][(pc \in {"unload_pre", "unload_post"} /\ pc' # pc /\ args.host # "") =>
          /\ pc' = (IF pc = "unload_pre" THEN "fetch" ELSE "exit")
          /\ UNCHANGED <<stdout, summary, isFallback, exitStatus, content,
                         cache>>]_vars
  /\ []((pc = "exited" /\ "print summary" \in Events(trace)) =>
          /\ stdout = summary \o <<"\n">>
          /\ exitStatus = (IF StartsWithError(summary) THEN 1 ELSE 0))

\* C14's case: the unload before the generation has failed for both loaded
\* models, and the run has generated a summary all the same
C14_Witness ==
  /\ pc = "validate"
  /\ unload_errors = 2
  /\ summary # <<>>

\* C15: the step of the model check goes on to the cache check when the
\* model is listed; when it is not, the run has exited with a nonzero status
\* at that step, with nothing printed and nothing done to the cache, no
\* unload, no fetch and no generation request.
C15_ModelNotListedAborts ==
  /\ [][(pc = "check_model" /\ pc' # pc /\ args.host # "") =>
          \/ /\ Last(trace') = "model available"
             /\ pc' = "cache_setup"
             /\ exitStatus' = NoStatus
          \/ /\ Last(trace') \in {"model not found", "listing failed"}
             /\ pc' = "exited"
             /\ exitStatus' = 1]_vars
  /\ []("model not found" \in Events(trace) =>
          /\ trace = <<"server reachable", "model not found">>
          /\ pc = "exited"
          /\ exitStatus # 0 /\ exitStatus # NoStatus
          /\ stdout = <<>>
          /\ cache = cacheAtStart)

\* C15's case: the server has answered and the model is not in its listing
C15_Witness ==
  /\ Last(trace) = "model not found"
  /\ pc = "exited"
  /\ \E f \in CacheFiles : cache[f].exists

\* C16: when the HTTP fetch of a refresh has failed, the run has exited with
\* a nonzero status, every cache entry is as it was when the run began, the
\* run has no content, and no generation request has been issued.
C16_FailedFetchAborts ==
  "GET url failed" \in Events(trace) =>
    /\ Last(trace) = "GET url failed"
    /\ pc = "exited"
    /\ exitStatus # 0 /\ exitStatus # NoStatus
    /\ cache = cacheAtStart
    /\ content = <<>>
    /\ stdout = <<>>
    /\ Events(trace) \cap GenerateEvents = {}

\* C16's case: the entry of the URL had expired, and the fetch to refresh it
\* has failed
C16_Witness ==
  /\ Last(trace) = "GET url failed"
  /\ pc = "exited"
  /\ cacheAtStart[RunFile].exists
  /\ cacheAtStart[RunFile].content # <<>>

\* C17, as stated: from an empty cache, a run prints the reuse sentinel only
\* if an earlier run for its URL has printed a summary.
C17_ReuseOnlyAfterSummary ==
  "print REPEATED" \in Events(trace) => args.url \in summarised

\* C18, as stated: clean_text(clean_text(t)) = clean_text(t)
C18_CleanTextIdempotent ==
  cpc = "recleaned" => recleaned = cleaned

\* a run without the override
NoOverride == pc # "idle" /\ args # NoArgs /\ args.allow_repeated # REPEATED

\* C19: a run without the override never reads its content from the cache;
\* when it has issued a generation request, it has fetched the URL over HTTP
\* and written the cache entry before, and its content is the entry's.
C19_NoOverrideAlwaysFetches ==
  NoOverride =>
    /\ "read cache" \notin Events(trace)
    /\ \A k \in 1..Len(trace) :
         trace[k] \in GenerateEvents =>
           /\ \E a, b \in 1..(k - 1) :
                a < b /\ trace[a] = "GET url" /\ trace[b] = "write cache"
           /\ cache[RunFile].exists
           /\ cache[RunFile].content = content
           /\ cache[RunFile] # cacheAtStart[RunFile]

\* C19's case: a run without the override found an expired entry, and has
\* issued its generation request
C19_Witness ==
  /\ NoOverride
  /\ "POST /api/generate" \in Events(trace)
  /\ cacheAtStart[RunFile].exists

\* C20: a step changes a cache entry only as the successful HTTP fetch of the
\* run's URL: the entry is that URL's, and it is replaced whole by the text
\* fetched, stored at the present time; a run that has written no entry
\* (short-circuited, served from the cache, or aborted) has left every entry
\* as it was, and a run that has written one has left the other entries so.
C20_CacheWrittenOnlyByFetch ==
  /\ [][\A f \in CacheFiles :
          cache'[f] # cache[f] =>
            /\ pc = "fetch" /\ pc' = "generate"
            /\ f = RunFile
            /\ trace' = trace \o <<"GET url", "write cache">>
            /\ cache'[f] = [exists |-> TRUE, mtime |-> now,
                            content |-> content']
            /\ cache_age_hours(f)' = 0]_vars
  /\ [](pc # "idle" =>
          \A f \in CacheFiles :
            ("write cache" \notin Events(trace) \/ args = NoArgs
               \/ f # RunFile)
              => cache[f] = cacheAtStart[f])

\* C20's case: a run has refetched an expired entry, whose text has changed,
\* while the other URL has an entry too
C20_Witness ==
  /\ "write cache" \in Events(trace)
  /\ cacheAtStart[RunFile].exists
  /\ cache[RunFile].content # cacheAtStart[RunFile].content
  /\ cache[RunFile].mtime # cacheAtStart[RunFile].mtime
  /\ \A f \in CacheFiles : cache[f].exists

\* C21: the driver takes get_cache_info of a URL at the start of that URL's
\* loop and at no other step; every row of the URL being swept carries the
\* cache_exists and cache_age_hours taken then, and any two rows of one URL
\* carry the same, whatever the runs have since done to the cache entry.
C21_CacheInfoSampledOncePerUrl ==
  /\ [][cache_info' # cache_info =>
          /\ dpc = "url" /\ dpc' = "model"
          /\ cache_info' = get_cache_info(cfg.urls[ui])]_vars
  /\ [](\A k \in 1..Len(report) :
          (dpc \in {"model", "run", "wait"} /\ report[k].URL = cfg.urls[ui]) =>
            /\ report[k].CacheUsed = PyStr(cache_info.cache_exists)
            /\ report[k].CacheAge =
                 (IF cache_info.cache_age_hours = NoAge THEN 0
                  ELSE cache_info.cache_age_hours))
  /\ [](\A j, k \in 1..Len(report) :
          report[j].URL = report[k].URL =>
            /\ report[j].CacheUsed = report[k].CacheUsed
            /\ report[j].CacheAge = report[k].CacheAge)

\* C21's case: the URL had no cache entry when it was sampled, the first run
\* has created one, and the row of the second run says there is none
C21_Witness ==
  /\ Len(report) = 2
  /\ report[1].URL = report[2].URL
  /\ report[1].Success = "True"
  /\ report[2].CacheUsed = "False"
  /\ cache[get_cache_file(report[2].URL)].exists
  /\ "read cache" \in Events(trace)

====
